---------------------------- MODULE Spec2Model ----------------------------
(***************************************************************************)
(* ComplexityLens (src/src/extension.ts): the heuristic complexity         *)
(* estimator estimateComplexity, the syntax highlighter highlightPython    *)
(* and the selection listener with its debounce timer, result cache and    *)
(* remote request.                                                         *)
(*                                                                         *)
(* A JavaScript string is modelled as a sequence of one-character strings, *)
(* so that includes, split, trim, search and the regular expressions are   *)
(* computed character by character as the code computes them.  The labels  *)
(* "O(n^2)" and "O(n^3)" stand for the source's 'O(n²)' and 'O(n³)'.       *)
(***************************************************************************)
EXTENDS Integers, Sequences, FiniteSets, TLC

(***************************************************************************)
(* Bounds of the model.                                                    *)
(***************************************************************************)
\* lines of a snippet handed to estimateComplexity
MaxLines == 3
\* leading blanks of a snippet line
MaxIndent == 2
\* pieces of a text handed to highlightPython
MaxChunks == 4
\* remote requests in flight at once
MaxInflight == 2
\* entries the cache keeps (50 in the source, scaled so that eviction happens)
CacheLimit == 2

(***************************************************************************)
(* Character classes of the regular expressions.                           *)
(***************************************************************************)
\* \s, restricted to the white space the inputs use
WS == {" ", "\n", "\t"}

Digit == {"0", "1", "2", "3", "4", "5", "6", "7", "8", "9"}

Lower == {"a", "b", "c", "d", "e", "f", "g", "h", "i", "j", "k", "l", "m",
          "n", "o", "p", "q", "r", "s", "t", "u", "v", "w", "x", "y", "z"}

Upper == {"A", "B", "C", "D", "E", "F", "G", "H", "I", "J", "K", "L", "M",
          "N", "O", "P", "Q", "R", "S", "T", "U", "V", "W", "X", "Y", "Z"}

\* \w
WordChar == Lower \cup Upper \cup Digit \cup {"_"}

(***************************************************************************)
(* String primitives.                                                      *)
(***************************************************************************)
\* s.substring(i - 1) for a 1-based i
Drop(s, pos) == SubSeq(s, pos, Len(s))

\* the element of a one-element set; a value bound as `x \in {e}` is computed
\* once, however often x is used
The(S) == CHOOSE x \in S : TRUE

\* p occurs in s at the 1-based position i
OccursAt(s, p, pos) ==
    /\ pos >= 1
    /\ pos + Len(p) - 1 <= Len(s)
    /\ \A k \in 1..Len(p) : s[pos + k - 1] = p[k]

\* s.includes(p)
Includes(s, p) == \E pos \in 1..(Len(s) - Len(p) + 1) : OccursAt(s, p, pos)

\* s.startsWith(p)
StartsWith(s, p) == OccursAt(s, p, 1)

\* the least k >= from with k > Len(s) or s[k] \notin set: the end of a greedy run
SkipWhile(s, from, set) ==
    CHOOSE k \in from..(Len(s) + 1) :
        /\ (k = Len(s) + 1 \/ s[k] \notin set)
        /\ \A j \in from..(k - 1) : s[j] \in set

\* s.trim()
Trim(s) ==
    LET a == SkipWhile(s, 1, WS)
    IN  IF a > Len(s) THEN <<>>
        ELSE LET b == CHOOSE k \in a..Len(s) :
                          /\ s[k] \notin WS
                          /\ \A j \in (k + 1)..Len(s) : s[j] \in WS
             IN  SubSeq(s, a, b)

\* s.search(/\S/): the 0-based index of the first non-blank character, or -1
SearchNonSpace(s) ==
    LET a == SkipWhile(s, 1, WS)
    IN  IF a > Len(s) THEN -1 ELSE a - 1

\* s.split('\n')
RECURSIVE Split(_)
Split(s) ==
    LET k == SkipWhile(s, 1, {s[x] : x \in 1..Len(s)} \ {"\n"})
    IN  IF k > Len(s) THEN <<s>>
        ELSE <<SubSeq(s, 1, k - 1)>> \o Split(Drop(s, k + 1))

\* lines.join('\n')
RECURSIVE Join(_)
Join(ls) ==
    IF Len(ls) = 0 THEN <<>>
    ELSE IF Len(ls) = 1 THEN ls[1]
    ELSE ls[1] \o <<"\n">> \o Join(Tail(ls))

(***************************************************************************)
(* The literals estimateComplexity looks for.                              *)
(***************************************************************************)
S_while == <<"w","h","i","l","e">>
S_left == <<"l","e","f","t">>
S_low == <<"l","o","w">>
S_right == <<"r","i","g","h","t">>
S_high == <<"h","i","g","h">>
S_mid == <<"m","i","d">>
S_m == <<"m">>
S_halfInt == <<"/","/"," ","2">>
S_half == <<"/"," ","2">>
S_def == <<"d","e","f">>
S_fibonacci == <<"f","i","b","o","n","a","c","c","i">>
S_fib == <<"f","i","b">>
S_merge == <<"m","e","r","g","e">>
S_partition == <<"p","a","r","t","i","t","i","o","n">>
S_dotSort == <<".","s","o","r","t","(">>
S_sorted == <<"s","o","r","t","e","d","(">>
S_forSp == <<"f","o","r"," ">>
S_whileSp == <<"w","h","i","l","e"," ">>
S_in == <<"i","n">>
S_range == <<"r","a","n","g","e">>
S_hash == <<"#">>

(***************************************************************************)
(* estimateComplexity: the rules that return before the line scan.         *)
(***************************************************************************)
\* the iterative binary search pattern
IsIterativeBinarySearch(snippet) ==
    /\ Includes(snippet, S_while)
    /\ (Includes(snippet, S_left) \/ Includes(snippet, S_low))
    /\ (Includes(snippet, S_right) \/ Includes(snippet, S_high))
    /\ Includes(snippet, S_mid)
    /\ (Includes(snippet, S_halfInt) \/ Includes(snippet, S_half))

\* /def\s+(\w+)\s*\(/ tried at position i: the captured name, or <<>>
DefMatchAt(snippet, pos) ==
    IF ~OccursAt(snippet, S_def, pos) THEN <<>>
    ELSE LET a == SkipWhile(snippet, pos + 3, WS)
             b == SkipWhile(snippet, a, WordChar)
             c == SkipWhile(snippet, b, WS)
         IN  IF a > pos + 3 /\ b > a /\ c <= Len(snippet) /\ snippet[c] = "("
             THEN SubSeq(snippet, a, b - 1)
             ELSE <<>>

\* code.match(/def\s+(\w+)\s*\(/): group 1 of the leftmost match, or <<>>
funcMatch(snippet) ==
    LET Leftmost(hits) ==
            IF hits = {} THEN <<>>
            ELSE The({DefMatchAt(snippet, pos) : pos \in {h \in hits : \A j \in hits : h <= j}})
    IN  The({Leftmost(hits) :
                 hits \in {{pos \in 1..Len(snippet) : DefMatchAt(snippet, pos) # <<>>}}})

\* /\bfuncName\s*\(/ matches at position i.  funcName is made of word characters,
\* so \b asks for no word character before it, and two matches never overlap.
CallMatchAt(snippet, funcName, pos) ==
    /\ OccursAt(snippet, funcName, pos)
    /\ (pos = 1 \/ snippet[pos - 1] \notin WordChar)
    /\ LET c == SkipWhile(snippet, pos + Len(funcName), WS)
       IN  c <= Len(snippet) /\ snippet[c] = "("

\* (code.match(new RegExp(`\\b${funcName}\\s*\\(`, 'g')) || []).length
recursiveCalls(snippet, funcName) ==
    Cardinality({pos \in 1..Len(snippet) : CallMatchAt(snippet, funcName, pos)})

\* mutant: the definition header is not counted, only the call sites
RecursionLabel_CallsOnly(snippet) ==
    LET Rule(funcName) ==
            LET calls == recursiveCalls(snippet, funcName) - 1
            IN  IF funcName = <<>> THEN "none"
                ELSE IF /\ calls > 2
                        /\ (Includes(snippet, S_fibonacci) \/ Includes(snippet, S_fib))
                THEN "O(2^n)"
                ELSE IF /\ calls >= 3
                        /\ (Includes(snippet, S_merge) \/ Includes(snippet, S_partition))
                THEN "O(n log n)"
                ELSE IF /\ calls = 2
                        /\ (Includes(snippet, S_mid) \/ Includes(snippet, S_m))
                        /\ (Includes(snippet, S_halfInt) \/ Includes(snippet, S_half))
                THEN "O(log n)"
                ELSE "none"
    IN  The({Rule(funcName) : funcName \in {funcMatch(snippet)}})

\* the label of the recursion rules, "none" when the code falls through them
RecursionLabel(snippet) ==
    LET Rule(funcName) ==
            LET calls == recursiveCalls(snippet, funcName)
            IN  IF funcName = <<>> THEN "none"
                ELSE IF /\ calls > 2
                        /\ (Includes(snippet, S_fibonacci) \/ Includes(snippet, S_fib))
                THEN "O(2^n)"
                ELSE IF /\ calls >= 3
                        /\ (Includes(snippet, S_merge) \/ Includes(snippet, S_partition))
                THEN "O(n log n)"
                ELSE IF /\ calls = 2
                        /\ (Includes(snippet, S_mid) \/ Includes(snippet, S_m))
                        /\ (Includes(snippet, S_halfInt) \/ Includes(snippet, S_half))
                THEN "O(log n)"
                ELSE "none"
    IN  The({Rule(funcName) : funcName \in {funcMatch(snippet)}})

\* built-in sorting
IsBuiltinSort(snippet) == Includes(snippet, S_dotSort) \/ Includes(snippet, S_sorted)

\* mutant: the built-in sort rule is tried first
EarlyLabel_SortFirst(snippet) ==
    IF IsBuiltinSort(snippet) THEN "O(n log n)"
    ELSE IF IsIterativeBinarySearch(snippet) THEN "O(log n)"
    ELSE IF RecursionLabel(snippet) # "none" THEN RecursionLabel(snippet)
    ELSE "none"

\* the label returned before the line scan, "none" when the scan runs
EarlyLabel(snippet) ==
    IF IsIterativeBinarySearch(snippet) THEN "O(log n)"
    ELSE IF RecursionLabel(snippet) # "none" THEN RecursionLabel(snippet)
    ELSE IF IsBuiltinSort(snippet) THEN "O(n log n)"
    ELSE "none"

(***************************************************************************)
(* estimateComplexity: the line scan.  A scan state is the record of the   *)
(* three locals, [max, cur, stack].                                        *)
(***************************************************************************)
Max(a, b) == IF a >= b THEN a ELSE b

ScanInit == [max |-> 0, cur |-> 0, stack |-> <<>>]

\* indentStack[indentStack.length - 1]
Top(stack) == stack[Len(stack)]

\* !trimmed || trimmed.startsWith('#')
IsSkippedLine(line) == Trim(line) = <<>> \/ StartsWith(Trim(line), S_hash)

\* trimmed.startsWith('for ') || trimmed.startsWith('while ')
IsLoopHeader(line) ==
    StartsWith(Trim(line), S_forSp) \/ StartsWith(Trim(line), S_whileSp)

\* mutant: a loop header at the indentation of the open loop counts as nested
IsNested_SameIndent(st, indent) == Len(st.stack) > 0 /\ indent >= Top(st.stack)

\* the loop header is nested in the loop on top of the stack
IsNested(st, indent) == Len(st.stack) > 0 /\ indent > Top(st.stack)

\* "Actually nested"
EnterNested(st, indent) ==
    [max |-> Max(st.max, st.cur + 1), cur |-> st.cur + 1,
     stack |-> Append(st.stack, indent)]

\* the condition of the popping loop of a sequential loop header
SeqPopCond(st, indent) == Len(st.stack) > 0 /\ indent <= Top(st.stack)

\* the condition of the popping loop of a dedented line
DedentPopCond(st, indent) == Len(st.stack) > 0 /\ indent < Top(st.stack)

\* indentStack.pop(); currentNestingLevel = Math.max(0, currentNestingLevel - 1)
\* mutant: the pop leaves currentNestingLevel as it is
PopOne_KeepLevel(st) ==
    [st EXCEPT !.stack = SubSeq(st.stack, 1, Len(st.stack) - 1)]

PopOne(st) ==
    [max |-> st.max, cur |-> Max(0, st.cur - 1),
     stack |-> SubSeq(st.stack, 1, Len(st.stack) - 1)]

\* after the popping loop of a sequential header: currentNestingLevel++ and the push
EnterSequential(st, indent) ==
    [max |-> st.max, cur |-> st.cur + 1, stack |-> Append(st.stack, indent)]

\* indent < (indentStack[indentStack.length - 1] || 999): an empty stack, and a
\* top of 0 as well, give 999
IsDedent(st, indent) ==
    indent < (IF Len(st.stack) > 0 /\ Top(st.stack) # 0 THEN Top(st.stack) ELSE 999)

RECURSIVE PopWhileSeq(_, _)
PopWhileSeq(st, indent) ==
    IF SeqPopCond(st, indent) THEN PopWhileSeq(PopOne(st), indent) ELSE st

RECURSIVE PopWhileDedent(_, _)
PopWhileDedent(st, indent) ==
    IF DedentPopCond(st, indent) THEN PopWhileDedent(PopOne(st), indent) ELSE st

\* the body of the for loop over the lines
ScanLine(st, line) ==
    LET indent == SearchNonSpace(line)
    IN  IF IsSkippedLine(line) THEN st
        ELSE IF IsLoopHeader(line)
        THEN IF IsNested(st, indent) THEN EnterNested(st, indent)
             ELSE EnterSequential(PopWhileSeq(st, indent), indent)
        ELSE IF IsDedent(st, indent) THEN PopWhileDedent(st, indent)
        ELSE st

RECURSIVE ScanLines(_, _)
ScanLines(st, ls) ==
    IF Len(ls) = 0 THEN st
    ELSE ScanLines(ScanLine(st, Head(ls)), Tail(ls))

(***************************************************************************)
(* estimateComplexity: after the scan.                                     *)
(***************************************************************************)
\* /\sin\s+(?!range)/ tried at position i: 0 when it fails, else the position after
\* the match.  \s+ is greedy and gives a blank back when `range` follows the run.
InMatchEnd(snippet, pos) ==
    IF ~(/\ pos + 3 <= Len(snippet)
         /\ snippet[pos] \in WS
         /\ OccursAt(snippet, S_in, pos + 1)
         /\ snippet[pos + 3] \in WS)
    THEN 0
    ELSE LET e == SkipWhile(snippet, pos + 3, WS)
         IN  IF ~OccursAt(snippet, S_range, e) THEN e
             ELSE IF e - 1 > pos + 3 THEN e - 1
             ELSE 0

\* (code.match(/\sin\s+(?!range)/g) || []).length, counted from position `from`
RECURSIVE InMatches(_, _)
InMatches(snippet, from) ==
    LET hits == {pos \in from..Len(snippet) : InMatchEnd(snippet, pos) # 0}
    IN  IF hits = {} THEN 0
        ELSE LET pos == CHOOSE h \in hits : \A j \in hits : h <= j
             IN  The({1 + InMatches(snippet, next) : next \in {InMatchEnd(snippet, pos)}})

inOperatorCount(snippet) == InMatches(snippet, 1)

\* mutant: the test for "no loops" is left out
NestingLabel_NoConstant(snippet, maxLevel) ==
    IF inOperatorCount(snippet) > 0 /\ maxLevel >= 1 THEN "O(n^2)"
    ELSE IF maxLevel >= 3 THEN "O(n^3)"
    ELSE IF maxLevel = 2 THEN "O(n^2)"
    ELSE "O(n)"

\* mutant: the final `return 'O(n)'` is missing, the function returns undefined
NestingLabel_NoDefault(snippet, maxLevel) ==
    IF inOperatorCount(snippet) > 0 /\ maxLevel >= 1 THEN "O(n^2)"
    ELSE IF maxLevel >= 3 THEN "O(n^3)"
    ELSE IF maxLevel = 2 THEN "O(n^2)"
    ELSE IF maxLevel = 1 THEN "O(n)"
    ELSE IF ~Includes(snippet, S_forSp) /\ ~Includes(snippet, S_whileSp) THEN "O(1)"
    ELSE "undefined"

\* lines 249-264: the label once the scan has computed maxNestingLevel
NestingLabel(snippet, maxLevel) ==
    IF inOperatorCount(snippet) > 0 /\ maxLevel >= 1 THEN "O(n^2)"
    ELSE IF maxLevel >= 3 THEN "O(n^3)"
    ELSE IF maxLevel = 2 THEN "O(n^2)"
    ELSE IF maxLevel = 1 THEN "O(n)"
    ELSE IF ~Includes(snippet, S_forSp) /\ ~Includes(snippet, S_whileSp) THEN "O(1)"
    ELSE "O(n)"

\* estimateComplexity as a function of the snippet
estimateComplexity(snippet) ==
    IF EarlyLabel(snippet) # "none" THEN EarlyLabel(snippet)
    ELSE NestingLabel(snippet, ScanLines(ScanInit, Split(snippet)).max)

(***************************************************************************)
(* highlightPython: escaping, the vocabularies and the token scans.        *)
(***************************************************************************)
S_amp == <<"&","a","m","p",";">>
S_lt == <<"&","l","t",";">>
S_gt == <<"&","g","t",";">>
S_spanOpen == <<"<","s","p","a","n"," ","c","l","a","s","s","=","\"">>
S_spanOpenEnd == <<"\"",">">>
S_spanClose == <<"<","/","s","p","a","n",">">>
C_comment == <<"c","o","m","m","e","n","t">>
C_string == <<"s","t","r","i","n","g">>
C_number == <<"n","u","m","b","e","r">>
C_keyword == <<"k","e","y","w","o","r","d">>
C_builtin == <<"b","u","i","l","t","i","n">>

\* one pass of s.replace(/c/g, rep) for a character c
RECURSIVE ReplaceAll(_, _, _)
ReplaceAll(s, c, rep) ==
    IF Len(s) = 0 THEN <<>>
    ELSE (IF Head(s) = c THEN rep ELSE <<Head(s)>>) \o ReplaceAll(Tail(s), c, rep)

\* lines 560-563: & first, then < and >
EscapeHtml(s) == ReplaceAll(ReplaceAll(ReplaceAll(s, "&", S_amp), "<", S_lt), ">", S_gt)

keywords ==
    {<<"d","e","f">>,
     <<"c","l","a","s","s">>,
     <<"i","f">>,
     <<"e","l","i","f">>,
     <<"e","l","s","e">>,
     <<"f","o","r">>,
     <<"w","h","i","l","e">>,
     <<"r","e","t","u","r","n">>,
     <<"i","m","p","o","r","t">>,
     <<"f","r","o","m">>,
     <<"a","s">>,
     <<"t","r","y">>,
     <<"e","x","c","e","p","t">>,
     <<"f","i","n","a","l","l","y">>,
     <<"w","i","t","h">>,
     <<"i","n">>,
     <<"i","s">>,
     <<"n","o","t">>,
     <<"a","n","d">>,
     <<"o","r">>,
     <<"b","r","e","a","k">>,
     <<"c","o","n","t","i","n","u","e">>,
     <<"p","a","s","s">>,
     <<"l","a","m","b","d","a">>,
     <<"y","i","e","l","d">>}

builtins ==
    {<<"p","r","i","n","t">>,
     <<"l","e","n">>,
     <<"r","a","n","g","e">>,
     <<"s","t","r">>,
     <<"i","n","t">>,
     <<"f","l","o","a","t">>,
     <<"l","i","s","t">>,
     <<"d","i","c","t">>,
     <<"s","e","t">>,
     <<"t","u","p","l","e">>,
     <<"e","n","u","m","e","r","a","t","e">>,
     <<"z","i","p">>,
     <<"m","a","p">>,
     <<"f","i","l","t","e","r">>,
     <<"s","o","r","t","e","d">>,
     <<"s","u","m">>,
     <<"m","a","x">>,
     <<"m","i","n">>,
     <<"a","b","s">>,
     <<"o","p","e","n">>}
\* `<span class="${cls}">${body}</span>`
Span(cls, body) == S_spanOpen \o cls \o S_spanOpenEnd \o body \o S_spanClose

Min(a, b) == IF a <= b THEN a ELSE b

\* s.substring(a, b) for 0-based a <= b, b clamped to the length
Substring(s, a, b) == SubSeq(s, a + 1, Min(b, Len(s)))

\* s[k] for a 0-based k < s.length
CharAt(s, k) == s[k + 1]

\* line.indexOf('#'), 0-based, -1 when there is none
IndexOfHash(line) ==
    LET k == SkipWhile(line, 1, {line[x] : x \in 1..Len(line)} \ {"#"})
    IN  IF k > Len(line) THEN -1 ELSE k - 1

\* lines 604-609: the index after the string literal opened at i - 1 by `quote`; a
\* backslash skips the next character, and the result may pass the end of codePart
RECURSIVE StringScan(_, _, _)
StringScan(part, j, quote) ==
    IF j < Len(part) /\ CharAt(part, j) # quote
    THEN StringScan(part, (IF CharAt(part, j) = "\\" THEN j + 1 ELSE j) + 1, quote)
    ELSE j + 1

\* lines 617-618 and 626-627: the index after the run of characters of `set` from j
RunEnd(part, j, set) == SkipWhile(part, j + 1, set) - 1

\* lines 630-636: a word as keyword, builtin or plain text
MarkWord(word) ==
    IF word \in keywords THEN Span(C_keyword, word)
    ELSE IF word \in builtins THEN Span(C_builtin, word)
    ELSE word

\* which branch of the tokenizer loop takes the character c
TokenKind(c) ==
    IF c \in WS THEN "space"
    ELSE IF c = "\"" \/ c = "'" THEN "string"
    ELSE IF c \in Digit THEN "number"
    ELSE IF c \in Lower \cup Upper \cup {"_"} THEN "word"
    ELSE "other"

\* mutant: the branch for operators and punctuation does not advance the index
TokenStep_NoAdvance(part, pos) ==
    LET c == CharAt(part, pos)
        kind == TokenKind(c)
    IN  IF kind = "string"
        THEN LET j == StringScan(part, pos + 1, c)
             IN  [next |-> j, text |-> Span(C_string, Substring(part, pos, j))]
        ELSE IF kind = "number"
        THEN LET j == RunEnd(part, pos, Digit \cup {"."})
             IN  [next |-> j, text |-> Span(C_number, Substring(part, pos, j))]
        ELSE IF kind = "word"
        THEN LET j == RunEnd(part, pos, WordChar)
             IN  [next |-> j, text |-> MarkWord(Substring(part, pos, j))]
        ELSE [next |-> IF kind = "other" THEN pos ELSE pos + 1, text |-> <<c>>]

\* lines 594-643: one iteration of the tokenizer loop at index i < codePart.length:
\* the next index and the text appended to processedLine
TokenStep(part, pos) ==
    LET c == CharAt(part, pos)
        kind == TokenKind(c)
    IN  IF kind = "string"
        THEN LET j == StringScan(part, pos + 1, c)
             IN  [next |-> j, text |-> Span(C_string, Substring(part, pos, j))]
        ELSE IF kind = "number"
        THEN LET j == RunEnd(part, pos, Digit \cup {"."})
             IN  [next |-> j, text |-> Span(C_number, Substring(part, pos, j))]
        ELSE IF kind = "word"
        THEN LET j == RunEnd(part, pos, WordChar)
             IN  [next |-> j, text |-> MarkWord(Substring(part, pos, j))]
        ELSE [next |-> pos + 1, text |-> <<c>>]

\* lines 573-582: the line is pushed without being tokenized
IsBlankLine(line) == Trim(line) = <<>>

IsCommentLine(line) == StartsWith(Trim(line), S_hash)

\* lines 585-587
CodePartOf(line) ==
    IF IndexOfHash(line) >= 0 THEN Substring(line, 0, IndexOfHash(line)) ELSE line

CommentPartOf(line) ==
    IF IndexOfHash(line) >= 0 THEN Drop(line, IndexOfHash(line) + 1) ELSE <<>>

\* lines 647-649
WithComment(processed, comment) ==
    IF comment # <<>> THEN processed \o Span(C_comment, comment)
    ELSE processed

RECURSIVE TokenizeFrom(_, _)
TokenizeFrom(part, pos) ==
    IF pos < Len(part)
    THEN TokenStep(part, pos).text \o TokenizeFrom(part, TokenStep(part, pos).next)
    ELSE <<>>

\* the body of the for loop over the lines: what is pushed for a line
HighlightLine(line) ==
    IF IsBlankLine(line) THEN <<>>
    ELSE IF IsCommentLine(line) THEN Span(C_comment, line)
    ELSE WithComment(TokenizeFrom(CodePartOf(line), 0), CommentPartOf(line))

\* highlightPython as a function of the text
highlightPython(snippet) ==
    LET ls == Split(EscapeHtml(snippet))
    IN  Join([k \in 1..Len(ls) |-> HighlightLine(ls[k])])

(***************************************************************************)
(* The inverse the round trip applies to the output of highlightPython.    *)
(***************************************************************************)
\* remove every <span class="..."> and </span>
RECURSIVE StripMarkers(_)
StripMarkers(s) ==
    IF Len(s) = 0 THEN <<>>
    ELSE IF StartsWith(s, S_spanClose) THEN StripMarkers(Drop(s, Len(S_spanClose) + 1))
    ELSE IF StartsWith(s, S_spanOpen)
    THEN LET rest == Drop(s, Len(S_spanOpen) + 1)
             q == SkipWhile(rest, 1, {rest[x] : x \in 1..Len(rest)} \ {"\""})
         IN  IF OccursAt(rest, S_spanOpenEnd, q)
             THEN StripMarkers(Drop(rest, q + Len(S_spanOpenEnd)))
             ELSE <<Head(s)>> \o StripMarkers(Tail(s))
    ELSE <<Head(s)>> \o StripMarkers(Tail(s))

\* &lt; &gt; &amp; back to < > &, in one pass from the left
RECURSIVE UnescapeHtml(_)
UnescapeHtml(s) ==
    IF Len(s) = 0 THEN <<>>
    ELSE IF StartsWith(s, S_amp) THEN <<"&">> \o UnescapeHtml(Drop(s, Len(S_amp) + 1))
    ELSE IF StartsWith(s, S_lt) THEN <<"<">> \o UnescapeHtml(Drop(s, Len(S_lt) + 1))
    ELSE IF StartsWith(s, S_gt) THEN <<">">> \o UnescapeHtml(Drop(s, Len(S_gt) + 1))
    ELSE <<Head(s)>> \o UnescapeHtml(Tail(s))

RoundTrip(snippet) == UnescapeHtml(StripMarkers(highlightPython(snippet)))

(***************************************************************************)
(* The texts the highlighter is run on: up to MaxChunks pieces.            *)
(***************************************************************************)
Pieces ==
    {<<"i","f">>, <<"l","e","n">>, <<"x">>, <<" ">>, <<"\n">>, <<"#">>, <<"\"">>, <<"\\">>, <<"<">>, <<"&">>,
     <<"1">>, <<".">>}

RECURSIVE Concat(_)
Concat(ps) == IF Len(ps) = 0 THEN <<>> ELSE Head(ps) \o Concat(Tail(ps))

TextInputs == {Concat(ps) : ps \in UNION {[1..n -> Pieces] : n \in 0..MaxChunks}}

(***************************************************************************)
(* The snippets the estimator is run on: up to MaxLines lines.  A loop     *)
(* header or a plain statement stands behind 0..MaxIndent blanks; the      *)
(* lines that only feed the text rules stand at the margin.                *)
(***************************************************************************)
L_forRange == <<"f","o","r"," ","i"," ","i","n"," ","r","a","n","g","e","(","n",")",":">>
L_forIn == <<"f","o","r"," ","x"," ","i","n"," ","x","s",":">>
L_while == <<"w","h","i","l","e"," ","l","o","w"," ","<"," ","h","i","g","h",":">>
L_pass == <<"p","a","s","s">>
L_mid == <<"m","i","d"," ","="," ","n"," ","/","/"," ","2">>
L_def == <<"d","e","f"," ","f","(","n",")",":">>
L_call == <<"f","(","n",")">>
L_twoCalls == <<"f","(","f","(","n",")",")">>
L_fibDef == <<"d","e","f"," ","f","i","b","(","n",")",":"," ","f","i","b","(","f","i","b","(","n",")",")">>
L_fib == <<"#"," ","f","i","b">>
L_merge == <<"#"," ","m","e","r","g","e">>
L_sort == <<"x","s",".","s","o","r","t","(",")">>
L_infoFor == <<"i","n","f","o","_","f","o","r"," ","="," ","1">>

IndentedBodies == {L_forRange, L_forIn, L_while, L_pass}

MarginBodies ==
    {L_mid, L_def, L_call, L_twoCalls, L_fibDef, L_fib, L_merge, L_sort, L_infoFor}

Blanks(n) == [k \in 1..n |-> " "]

SnippetLines ==
    {Blanks(n) \o b : n \in 0..MaxIndent, b \in IndentedBodies}
        \cup MarginBodies \cup {<<>>}

SnippetInputs ==
    {Join(ls) : ls \in UNION {[1..n -> SnippetLines] : n \in 1..MaxLines}}

(***************************************************************************)
(* The selection listener: the selections of the editor, the bodies the    *)
(* remote service answers with, and the helpers of the timer callback.     *)
(***************************************************************************)
\* two nested loops, selected from the first character
Sel_nested == <<"f","o","r"," ","a"," ","i","n"," ","b",":","\n"," ","f","o","r"," ","c"," ","i","n"," ","d",":">>
\* the same text selected with the blank before it: both headers at one indentation
Sel_indented == <<" ","f","o","r"," ","a"," ","i","n"," ","b",":","\n"," ","f","o","r"," ","c"," ","i","n"," ","d",":">>
Sel_sort == <<"r","e","s","u","l","t"," ","="," ","x","s",".","s","o","r","t","(",")">>
Sel_plain == <<"t","o","t","a","l"," ","="," ","a"," ","+"," ","b"," ","+"," ","c">>
\* fewer than MinSelection characters once trimmed
Sel_short == <<"x"," ","="," ","1">>

\* line 31: code.trim().length < 15 is not analysed
MinSelection == 15

Selections == {Sel_nested, Sel_indented, Sel_sort, Sel_plain, Sel_short}

\* the selections the listener starts a timer for
Analysed == {c \in Selections : Len(Trim(c)) >= MinSelection}

\* data.content[0].text of the bodies the service answers with
R_label == <<"I","t"," ","i","s"," ","O","(","n","!",")",".">>
R_free == <<"n","o"," ","i","d","e","a">>

ResponseTexts == {R_label, R_free}

\* what ends a remote request
Outcomes ==
    {[kind |-> k, text |-> <<>>] : k \in {"networkError", "notOk", "badBody"}}
        \cup {[kind |-> "ok", text |-> t] : t \in ResponseTexts}

\* the characters of a label of estimateComplexity
LabelChars(label) ==
    CASE label = "O(1)" -> <<"O","(","1",")">>
      [] label = "O(log n)" -> <<"O","(","l","o","g"," ","n",")">>
      [] label = "O(n)" -> <<"O","(","n",")">>
      [] label = "O(n^2)" -> <<"O","(","n","^","2",")">>
      [] label = "O(n^3)" -> <<"O","(","n","^","3",")">>
      [] label = "O(n log n)" -> <<"O","(","n"," ","l","o","g"," ","n",")">>
      [] label = "O(2^n)" -> <<"O","(","2","^","n",")">>

\* the value a table of pairs, computed once, holds for x
Lookup(pairs, x) == (CHOOSE p \in pairs : p[1] = x)[2]

\* estimateComplexity(code) as the string handed to showInlineComplexity
HeuristicPairs == {<<c, LabelChars(estimateComplexity(c))>> : c \in Analysed}

HeuristicLabel(c) == Lookup(HeuristicPairs, c)

\* result.match(/O\([^)]+\)/) tried at position k: 0, or the position of the `)`
BigOMatchEnd(s, k) ==
    IF ~(k + 1 <= Len(s) /\ s[k] = "O" /\ s[k + 1] = "(") THEN 0
    ELSE LET e == SkipWhile(s, k + 2, {s[x] : x \in 1..Len(s)} \ {")"})
         IN  IF e > k + 2 /\ e <= Len(s) THEN e ELSE 0

\* lines 164-167: match ? match[0] : result, for result = text.trim()
ExtractLabel(text) ==
    LET res == Trim(text)
        hits == {k \in 1..Len(res) : BigOMatchEnd(res, k) # 0}
    IN  IF hits = {} THEN res
        ELSE LET k == CHOOSE h \in hits : \A j \in hits : h <= j
             IN  SubSeq(res, k, BigOMatchEnd(res, k))

\* the text of the label for each body with a text
LabelPairs == {<<t, ExtractLabel(t)>> : t \in ResponseTexts}

LabelOfText(t) == Lookup(LabelPairs, t)

\* line 49: cacheKey = code.trim()
KeyPairs == {<<c, Trim(c)>> : c \in Analysed}

CacheKey(c) == Lookup(KeyPairs, c)

\* complexityCache is a Map: the sequence of its entries in insertion order
CacheKeys(cache) == {cache[k].key : k \in 1..Len(cache)}

\* complexityCache.has(key)
CacheHas(cache, key) == key \in CacheKeys(cache)

\* complexityCache.get(key)
CacheGet(cache, key) == cache[CHOOSE k \in 1..Len(cache) : cache[k].key = key].value

\* complexityCache.set(key, value): a present key keeps its place
CacheSet(cache, key, value) ==
    IF CacheHas(cache, key)
    THEN [k \in 1..Len(cache) |->
             IF cache[k].key = key THEN [key |-> key, value |-> value] ELSE cache[k]]
    ELSE Append(cache, [key |-> key, value |-> value])

\* lines 60-63: the oldest entry goes when the size exceeds the limit
Evict(cache) == IF Len(cache) > CacheLimit THEN Tail(cache) ELSE cache

\* lines 58-63
Store(cache, key, value) == Evict(CacheSet(cache, key, value))

\* the loading decoration of lines 37-46
Loading(c) == [kind |-> "loading", code |-> c, text |-> <<>>, via |-> "select"]

\* showInlineComplexity: the decoration that replaces the editor's decorations;
\* `via` records the path of the callback that called it
Shown(c, complexity, via) ==
    [kind |-> "label", code |-> c, text |-> complexity, via |-> via]

NoDecoration == [kind |-> "none", code |-> <<>>, text |-> <<>>, via |-> "select"]

(***************************************************************************)
(* State.                                                                  *)
(***************************************************************************)
VARIABLES
    \* estimateComplexity, run step by step
    code,                 \* the argument
    epc,                  \* "start", "scan", "popSeq", "popDedent", "done"
    lines,                \* code.split('\n')
    lineNo,               \* the 1-based position of the for loop in lines
    maxNestingLevel,
    currentNestingLevel,
    indentStack,
    estimate,             \* the returned label, "none" until the return
    \* highlightPython, run step by step
    hcode,                \* the argument
    hpc,                  \* "line", "token", "done"
    hlines,               \* escaped.split('\n')
    hlineNo,              \* the 1-based position of the for loop in hlines
    codePart,
    commentPart,
    i,                    \* the 0-based scan index of the tokenizer loop
    processedLine,
    result,               \* the lines pushed so far
    \* the selection listener
    selection,            \* the text of the editor's selection, <<>> when empty
    decoration,           \* what setDecorations last put in the editor
    debounceTimer,        \* the code of the pending timer callback, <<>> when none
    complexityCache,
    requests,             \* per code, the calls of quickComplexityCheck awaiting fetch
    apiKey                \* complexityLens.apiKey is configured

evars == <<code, epc, lines, lineNo, maxNestingLevel, currentNestingLevel,
           indentStack, estimate>>

hvars == <<hcode, hpc, hlines, hlineNo, codePart, commentPart, i, processedLine,
           result>>

xvars == <<selection, decoration, debounceTimer, complexityCache, requests, apiKey>>

vars == <<evars, hvars, xvars>>

\* no editor is attached
ListenerIdle ==
    /\ selection = <<>>
    /\ decoration = NoDecoration
    /\ debounceTimer = <<>>
    /\ complexityCache = <<>>
    /\ requests = [c \in Analysed |-> 0]
    /\ apiKey = FALSE

\* estimateComplexity is not running
EstimateIdle ==
    /\ code = <<>>
    /\ epc = "idle"
    /\ lines = <<>>
    /\ lineNo = 1
    /\ maxNestingLevel = 0
    /\ currentNestingLevel = 0
    /\ indentStack = <<>>
    /\ estimate = "none"

\* highlightPython is not running
HighlightIdle ==
    /\ hcode = <<>>
    /\ hpc = "idle"
    /\ hlines = <<>>
    /\ hlineNo = 1
    /\ codePart = <<>>
    /\ commentPart = <<>>
    /\ i = 0
    /\ processedLine = <<>>
    /\ result = <<>>

\* the three locals of the scan as a scan state
ScanState ==
    [max |-> maxNestingLevel, cur |-> currentNestingLevel, stack |-> indentStack]

SetScanState(st) ==
    /\ maxNestingLevel' = st.max
    /\ currentNestingLevel' = st.cur
    /\ indentStack' = st.stack

InitEstimate ==
    /\ code \in SnippetInputs
    /\ epc = "start"
    /\ lines = Split(code)
    /\ lineNo = 1
    /\ maxNestingLevel = 0
    /\ currentNestingLevel = 0
    /\ indentStack = <<>>
    /\ estimate = "none"
    /\ HighlightIdle
    /\ ListenerIdle

\* lines 173-211: the rules that return before the scan
CheckRules ==
    /\ epc = "start"
    /\ \E label \in {EarlyLabel(code)} :
           IF label # "none"
           THEN estimate' = label /\ epc' = "done"
           ELSE estimate' = estimate /\ epc' = "scan"
    /\ UNCHANGED <<code, lines, lineNo, maxNestingLevel, currentNestingLevel,
                   indentStack, hvars, xvars>>

\* lines 218-238: one line of the scan, up to the entry of a popping loop
ScanStep ==
    /\ epc = "scan"
    /\ lineNo <= Len(lines)
    /\ LET line == lines[lineNo]
           indent == SearchNonSpace(line)
       IN  IF IsSkippedLine(line)
           THEN /\ lineNo' = lineNo + 1
                /\ UNCHANGED <<epc, maxNestingLevel, currentNestingLevel, indentStack>>
           ELSE IF IsLoopHeader(line)
           THEN IF IsNested(ScanState, indent)
                THEN /\ SetScanState(EnterNested(ScanState, indent))
                     /\ lineNo' = lineNo + 1
                     /\ epc' = epc
                ELSE /\ epc' = "popSeq"
                     /\ UNCHANGED <<lineNo, maxNestingLevel, currentNestingLevel,
                                    indentStack>>
           ELSE IF IsDedent(ScanState, indent)
           THEN /\ epc' = "popDedent"
                /\ UNCHANGED <<lineNo, maxNestingLevel, currentNestingLevel,
                               indentStack>>
           ELSE /\ lineNo' = lineNo + 1
                /\ UNCHANGED <<epc, maxNestingLevel, currentNestingLevel, indentStack>>
    /\ UNCHANGED <<code, lines, estimate, hvars, xvars>>

\* lines 231-237: one test of the popping loop of a sequential loop header
PopSequential ==
    /\ epc = "popSeq"
    /\ LET indent == SearchNonSpace(lines[lineNo])
       IN  IF SeqPopCond(ScanState, indent)
           THEN /\ SetScanState(PopOne(ScanState))
                /\ UNCHANGED <<epc, lineNo>>
           ELSE /\ SetScanState(EnterSequential(ScanState, indent))
                /\ lineNo' = lineNo + 1
                /\ epc' = "scan"
    /\ UNCHANGED <<code, lines, estimate, hvars, xvars>>

\* lines 240-243: one test of the popping loop of a dedented line
PopDedent ==
    /\ epc = "popDedent"
    /\ LET indent == SearchNonSpace(lines[lineNo])
       IN  IF DedentPopCond(ScanState, indent)
           THEN /\ SetScanState(PopOne(ScanState))
                /\ UNCHANGED <<epc, lineNo>>
           ELSE /\ lineNo' = lineNo + 1
                /\ epc' = "scan"
                /\ UNCHANGED <<maxNestingLevel, currentNestingLevel, indentStack>>
    /\ UNCHANGED <<code, lines, estimate, hvars, xvars>>

\* lines 247-264: the label after the scan
Classify ==
    /\ epc = "scan"
    /\ lineNo > Len(lines)
    /\ estimate' = NestingLabel(code, maxNestingLevel)
    /\ epc' = "done"
    /\ UNCHANGED <<code, lines, lineNo, maxNestingLevel, currentNestingLevel,
                   indentStack, hvars, xvars>>

NextEstimate == CheckRules \/ ScanStep \/ PopSequential \/ PopDedent \/ Classify

SpecEstimate == InitEstimate /\ [][NextEstimate]_vars

\* the step machine returns what the function returns
EstimateAgrees == epc = "done" => estimate = estimateComplexity(code)

(***************************************************************************)
(* highlightPython, step by step: one step per line start, per iteration   *)
(* of the tokenizer loop and per line end.                                 *)
(***************************************************************************)
InitHighlight ==
    /\ hcode \in TextInputs
    /\ hpc = "line"
    /\ hlines = Split(EscapeHtml(hcode))
    /\ hlineNo = 1
    /\ codePart = <<>>
    /\ commentPart = <<>>
    /\ i = 0
    /\ processedLine = <<>>
    /\ result = <<>>
    /\ EstimateIdle
    /\ ListenerIdle

\* lines 571-592: the head of the loop body for the next line
StartLine ==
    /\ hpc = "line"
    /\ hlineNo <= Len(hlines)
    /\ LET line == hlines[hlineNo]
       IN  IF IsBlankLine(line) \/ IsCommentLine(line)
           THEN /\ result' = Append(result, HighlightLine(line))
                /\ hlineNo' = hlineNo + 1
                /\ UNCHANGED <<hpc, codePart, commentPart, i, processedLine>>
           ELSE /\ codePart' = CodePartOf(line)
                /\ commentPart' = CommentPartOf(line)
                /\ processedLine' = <<>>
                /\ i' = 0
                /\ hpc' = "token"
                /\ UNCHANGED <<hlineNo, result>>
    /\ UNCHANGED <<hcode, hlines, evars, xvars>>

\* one iteration of the tokenizer loop that takes the branch `kind`
Token(kind) ==
    /\ hpc = "token"
    /\ i < Len(codePart)
    /\ TokenKind(CharAt(codePart, i)) = kind
    /\ i' = TokenStep(codePart, i).next
    /\ processedLine' = processedLine \o TokenStep(codePart, i).text
    /\ UNCHANGED <<hcode, hpc, hlines, hlineNo, codePart, commentPart, result, evars, xvars>>

\* lines 595-599
SkipWhitespace == Token("space")

\* lines 602-613
StringLiteral == Token("string")

\* lines 616-622
NumberLiteral == Token("number")

\* lines 625-639
Identifier == Token("word")

\* lines 641-643
Punctuation == Token("other")

\* lines 646-651: the tokenizer loop has ended
EndLine ==
    /\ hpc = "token"
    /\ i >= Len(codePart)
    /\ result' = Append(result, WithComment(processedLine, commentPart))
    /\ hlineNo' = hlineNo + 1
    /\ hpc' = "line"
    /\ UNCHANGED <<hcode, hlines, codePart, commentPart, i, processedLine, evars, xvars>>

\* line 654: the loop over the lines has ended
ReturnHighlight ==
    /\ hpc = "line"
    /\ hlineNo > Len(hlines)
    /\ hpc' = "done"
    /\ UNCHANGED <<hcode, hlines, hlineNo, codePart, commentPart, i, processedLine,
                   result, evars, xvars>>

NextHighlight ==
    \/ StartLine
    \/ SkipWhitespace
    \/ StringLiteral
    \/ NumberLiteral
    \/ Identifier
    \/ Punctuation
    \/ EndLine
    \/ ReturnHighlight

SpecHighlight == InitHighlight /\ [][NextHighlight]_vars

\* result.join('\n') once highlightPython has returned
Highlighted == Join(result)

\* the step machine returns what the function returns
HighlightAgrees == hpc = "done" => Highlighted = highlightPython(hcode)

\* C6 as stated
RoundTripExact == hpc = "done" => UnescapeHtml(StripMarkers(Highlighted)) = hcode

(***************************************************************************)
(* The selection listener of activate: selection events, the debounce      *)
(* timer, and the remote request of quickComplexityCheck.  One Python      *)
(* editor is open.  An await that no other event can interleave with (the  *)
(* return of quickComplexityCheck without a key) is part of its step.      *)
(***************************************************************************)
Init ==
    /\ selection = <<>>
    /\ decoration = NoDecoration
    /\ debounceTimer = <<>>
    /\ complexityCache = <<>>
    /\ requests = [c \in Analysed |-> 0]
    /\ apiKey = FALSE
    /\ EstimateIdle
    /\ HighlightIdle

InFlight == LET RECURSIVE Sum(_)
                Sum(S) == IF S = {} THEN 0
                          ELSE LET c == CHOOSE x \in S : TRUE
                               IN  requests[c] + Sum(S \ {c})
            IN  Sum(Analysed)

\* lines 25-28: the selection is empty
ClearSelection ==
    /\ selection' = <<>>
    /\ decoration' = NoDecoration
    /\ UNCHANGED <<debounceTimer, complexityCache, requests, apiKey, evars, hvars>>

\* line 31: the selection is too short to analyse
SelectShort ==
    \E c \in Selections \ Analysed :
        /\ selection' = c
        /\ UNCHANGED <<decoration, debounceTimer, complexityCache, requests, apiKey,
                       evars, hvars>>

\* lines 33-70: the pending timer is cleared, the loading decoration is set and a
\* new timer is started
SelectCode ==
    \E c \in Analysed :
        /\ selection' = c
        /\ decoration' = Loading(c)
        /\ debounceTimer' = c
        /\ UNCHANGED <<complexityCache, requests, apiKey, evars, hvars>>

\* lines 49-54: the timer fires and the cache has the key
ShowCached ==
    /\ debounceTimer # <<>>
    /\ CacheHas(complexityCache, CacheKey(debounceTimer))
    /\ decoration' = Shown(debounceTimer, CacheGet(complexityCache, CacheKey(debounceTimer)),
                           "cache")
    /\ debounceTimer' = <<>>
    /\ UNCHANGED <<selection, complexityCache, requests, apiKey, evars, hvars>>

\* lines 56-65 and 131-136: the timer fires, the cache misses and no key is
\* configured: quickComplexityCheck returns estimateComplexity(code)
CheckWithoutKey ==
    /\ debounceTimer # <<>>
    /\ ~CacheHas(complexityCache, CacheKey(debounceTimer))
    /\ ~apiKey
    /\ complexityCache' =
           Store(complexityCache, CacheKey(debounceTimer), HeuristicLabel(debounceTimer))
    /\ decoration' = Shown(debounceTimer, HeuristicLabel(debounceTimer), "noKey")
    /\ debounceTimer' = <<>>
    /\ UNCHANGED <<selection, requests, apiKey, evars, hvars>>

\* mutant: the request is sent without looking at the cache
StartRequest_Uncached ==
    /\ debounceTimer # <<>>
    /\ apiKey
    /\ InFlight < MaxInflight
    /\ requests' = [requests EXCEPT ![debounceTimer] = @ + 1]
    /\ debounceTimer' = <<>>
    /\ UNCHANGED <<selection, decoration, complexityCache, apiKey, evars, hvars>>

\* lines 56-57 and 138-157: the timer fires, the cache misses and the request is sent
StartRequest ==
    /\ debounceTimer # <<>>
    /\ ~CacheHas(complexityCache, CacheKey(debounceTimer))
    /\ apiKey
    /\ InFlight < MaxInflight
    /\ requests' = [requests EXCEPT ![debounceTimer] = @ + 1]
    /\ debounceTimer' = <<>>
    /\ UNCHANGED <<selection, decoration, complexityCache, apiKey, evars, hvars>>

\* mutant: the catch block shows nothing
RequestFails_Silent ==
    \E c \in Analysed, o \in Outcomes :
        /\ requests[c] > 0
        /\ o.kind # "ok"
        /\ requests' = [requests EXCEPT ![c] = @ - 1]
        /\ UNCHANGED <<selection, decoration, debounceTimer, complexityCache, apiKey,
                       evars, hvars>>

\* lines 159-161 and 66-69: fetch rejects, the response is not OK or its body has no
\* content[0].text: quickComplexityCheck throws and the callback falls back
RequestFails ==
    \E c \in Analysed, o \in Outcomes :
        /\ requests[c] > 0
        /\ o.kind # "ok"
        /\ requests' = [requests EXCEPT ![c] = @ - 1]
        /\ decoration' = Shown(c, HeuristicLabel(c), o.kind)
        /\ UNCHANGED <<selection, debounceTimer, complexityCache, apiKey, evars, hvars>>

\* lines 163-167 and 58-65: the body has a text: it is cached and shown
RequestSucceeds ==
    \E c \in Analysed, o \in Outcomes :
        /\ requests[c] > 0
        /\ o.kind = "ok"
        /\ requests' = [requests EXCEPT ![c] = @ - 1]
        /\ complexityCache' = Store(complexityCache, CacheKey(c), LabelOfText(o.text))
        /\ decoration' = Shown(c, LabelOfText(o.text), "remote")
        /\ UNCHANGED <<selection, debounceTimer, apiKey, evars, hvars>>

\* the user sets or removes complexityLens.apiKey
ConfigureKey ==
    /\ apiKey' = ~apiKey
    /\ UNCHANGED <<selection, decoration, debounceTimer, complexityCache, requests,
                   evars, hvars>>

Next ==
    \/ ClearSelection
    \/ SelectShort
    \/ SelectCode
    \/ ShowCached
    \/ CheckWithoutKey
    \/ StartRequest
    \/ RequestFails
    \/ RequestSucceeds
    \/ ConfigureKey

Spec == Init /\ [][Next]_vars

(***************************************************************************)
(* Vocabulary of the claims about estimateComplexity.                      *)
(***************************************************************************)
S_for == <<"f","o","r">>

\* w stands in s as a token: a whole run of word characters
HasToken(s, w) ==
    \E k \in 1..Len(s) :
        /\ OccursAt(s, w, k)
        /\ (k = 1 \/ s[k - 1] \notin WordChar)
        /\ (k + Len(w) > Len(s) \/ s[k + Len(w)] \notin WordChar)

\* the 1-based positions in `lines` of the loop headers the scan sees
LoopHeaders == {k \in 1..Len(lines) : ~IsSkippedLine(lines[k]) /\ IsLoopHeader(lines[k])}

\* line b lies in the body of the loop header at line a: every line after a, up to b,
\* is blank, a comment or indented deeper than a
InBodyOf(a, b) ==
    /\ a < b
    /\ \A k \in (a + 1)..b :
           IsSkippedLine(lines[k]) \/ SearchNonSpace(lines[k]) > SearchNonSpace(lines[a])

\* none of rules 1-3 matches
NoEarlyRule ==
    /\ ~IsIterativeBinarySearch(code)
    /\ RecursionLabel(code) = "none"
    /\ ~IsBuiltinSort(code)

\* the line scan has run to its end
ScanRan == lineNo > Len(lines)

ComplexityLabels ==
    {"O(1)", "O(log n)", "O(n)", "O(n^2)", "O(n^3)", "O(n log n)", "O(2^n)"}

C2_SequentialVersusNested ==
    (epc = "done" /\ NoEarlyRule) =>
        /\ (/\ LoopHeaders # {}
            /\ \A a, b \in LoopHeaders :
                   /\ SearchNonSpace(lines[a]) = SearchNonSpace(lines[b])
                   /\ ~InBodyOf(a, b))
               => estimate = "O(n)"
        /\ (/\ Cardinality(LoopHeaders) = 2
            /\ \E a, b \in LoopHeaders : InBodyOf(a, b))
               => estimate = "O(n^2)"

\* three sequential loops, one of them over a collection, labelled O(n)
C2_Witness ==
    /\ epc = "done"
    /\ NoEarlyRule
    /\ Cardinality(LoopHeaders) = 3
    /\ \A a, b \in LoopHeaders : SearchNonSpace(lines[a]) = SearchNonSpace(lines[b])
    /\ Includes(code, L_forIn)
    /\ estimate = "O(n)"

\* C3 as stated: with none of rules 1-3 matching, a membership test and a nesting
\* depth of at least 1, a single loop counting as depth 1, give O(n^2)
C3_MembershipInLoop ==
    (/\ epc = "done"
     /\ NoEarlyRule
     /\ inOperatorCount(code) > 0
     /\ LoopHeaders # {})
        => estimate = "O(n^2)"

\* C4: the rules apply in priority order, first match wins
C4_PriorityOrder ==
    /\ (epc = "done" /\ IsIterativeBinarySearch(code)) => estimate = "O(log n)"
    /\ (epc = "done" /\ ~IsIterativeBinarySearch(code) /\ RecursionLabel(code) # "none")
           => estimate = RecursionLabel(code)
    /\ (/\ epc = "done"
        /\ ~IsIterativeBinarySearch(code)
        /\ RecursionLabel(code) = "none"
        /\ IsBuiltinSort(code))
           => estimate = "O(n log n)"
    /\ (epc \in {"scan", "popSeq", "popDedent"} \/ (epc = "done" /\ ScanRan))
           => NoEarlyRule

\* rule 1 wins over an exponential recursion that is also present
C4_Witness ==
    /\ epc = "done"
    /\ IsIterativeBinarySearch(code)
    /\ RecursionLabel(code) = "O(2^n)"
    /\ estimate = "O(log n)"

\* a step of estimateComplexity can be taken: the scan reads a line that exists
CanStep ==
    \/ epc = "start"
    \/ epc = "scan" /\ lineNo \in 1..(Len(lines) + 1)
    \/ epc \in {"popSeq", "popDedent"} /\ lineNo \in 1..Len(lines)

\* C5: for every input the run goes on until it returns, and it returns exactly one
\* of the seven labels
C5_Total ==
    /\ epc = "done" => estimate \in ComplexityLabels
    /\ epc # "done" => (CanStep /\ estimate = "none")

\* the empty string, labelled
C5_Witness == epc = "done" /\ code = <<>> /\ estimate \in ComplexityLabels

\* C10: the recursion rule, for a snippet not matching rule 1, by the number c of
\* occurrences of the first defined name followed by `(`, the header included
C10_RecursionRule ==
    (epc = "done" /\ ~IsIterativeBinarySearch(code) /\ funcMatch(code) # <<>>) =>
        LET c == recursiveCalls(code, funcMatch(code))
            halving == Includes(code, S_halfInt) \/ Includes(code, S_half)
        IN  IF c > 2 /\ Includes(code, S_fib) THEN estimate = "O(2^n)"
            ELSE IF c >= 3 /\ (Includes(code, S_merge) \/ Includes(code, S_partition))
            THEN estimate = "O(n log n)"
            ELSE IF c = 2 /\ (Includes(code, S_mid) \/ Includes(code, S_m)) /\ halving
            THEN estimate = "O(log n)"
            ELSE IF IsBuiltinSort(code) THEN estimate = "O(n log n)"
            ELSE ScanRan

\* one recursive call, c = 2, with a midpoint and a halving: O(log n)
C10_Witness ==
    /\ epc = "done"
    /\ ~IsIterativeBinarySearch(code)
    /\ funcMatch(code) = <<"f">>
    /\ recursiveCalls(code, funcMatch(code)) = 2
    /\ estimate = "O(log n)"

\* a chain of d loop headers, each in the body of the one before
HasChain(d) ==
    \E f \in [1..d -> LoopHeaders] : \A k \in 1..(d - 1) : InBodyOf(f[k], f[k + 1])

\* the estimator is running or has returned
InEstimate == epc \in {"start", "scan", "popSeq", "popDedent", "done"}

\* C11 as stated: the scan's maximum nesting depth reaches d >= 2 only if the snippet
\* has a chain of d loops, each header inside the body of the previous one; a loop
\* after the end of an earlier loop's body is not counted as nested in it
C11_TextualNesting ==
    (InEstimate /\ maxNestingLevel >= 2) => HasChain(maxNestingLevel)

\* the entries of a stack increase strictly from bottom to top
StrictlyIncreasing(stack) ==
    \A a, b \in 1..Len(stack) : a < b => stack[a] < stack[b]

\* C12: throughout the scan currentNestingLevel is the number of entries of
\* indentStack and the entries increase strictly from bottom to top;
\* maxNestingLevel never decreases, and every pop lowers a level of at least 1 by
\* exactly one, so the floor at zero never takes effect
C12_ScanInvariant ==
    /\ [](InEstimate =>
              (currentNestingLevel = Len(indentStack) /\ StrictlyIncreasing(indentStack)))
    /\ [][/\ maxNestingLevel' >= maxNestingLevel
          /\ Len(indentStack') < Len(indentStack) =>
                 (/\ currentNestingLevel >= 1
                  /\ currentNestingLevel' = currentNestingLevel - 1
                  /\ Len(indentStack') = Len(indentStack) - 1)]_vars

\* a dedent has popped the inner of two nested loops: the level is back at 1, below
\* the maximum, with one entry left on the stack
C12_Witness ==
    /\ epc = "popDedent"
    /\ maxNestingLevel = 2
    /\ currentNestingLevel = 1
    /\ Len(indentStack) = 1

(***************************************************************************)
(* Both functions as one system: a run is one call of either.  The code is *)
(* synchronous, so a step that can be taken is taken.                      *)
(***************************************************************************)
InitCore == InitEstimate \/ InitHighlight

NextCore == NextEstimate \/ NextHighlight

SpecCore == InitCore /\ [][NextCore]_vars /\ WF_vars(NextCore)

\* C7: every iteration of the tokenizer loop advances the index, and the loop ends
\* with the code portion consumed (at most two past its end, after an unterminated
\* string or a trailing backslash); the line scan goes through the lines one by one
\* and every iteration of a popping loop shrinks the stack; both functions return
C7_ScansTerminate ==
    /\ [][/\ (hpc = "token" /\ i < Len(codePart)) => (hpc' = "token" /\ i' > i)
          /\ (hpc = "token" /\ hpc' = "line") =>
                 (i >= Len(codePart) /\ i <= Len(codePart) + 2 /\ hlineNo' = hlineNo + 1)
          /\ (hpc = "line" /\ hpc' = "line") => hlineNo' = hlineNo + 1
          /\ (epc = "scan" /\ epc' = "scan") => lineNo' = lineNo + 1
          /\ (epc \in {"popSeq", "popDedent"} /\ epc' = epc) =>
                 (Len(indentStack') < Len(indentStack) /\ lineNo' = lineNo)
          /\ (epc \in {"popSeq", "popDedent"} /\ epc' # epc) =>
                 (epc' = "scan" /\ lineNo' = lineNo + 1)]_vars
    /\ <>(epc = "done" \/ hpc = "done")

\* a line that ends in an unterminated string after a backslash has been tokenized
\* with the index past the end of the code portion
C7_Witness ==
    /\ hpc = "done"
    /\ i = Len(codePart) + 2
    /\ Len(result) = Len(hlines)

(***************************************************************************)
(* Claims about the selection listener.                                    *)
(***************************************************************************)
\* the step is a firing of the debounce timer
TimerFires == debounceTimer # <<>> /\ debounceTimer' = <<>>

\* C8: a timer firing for a snippet whose trimmed text has an entry in the cache
\* shows the cached label, sends no request and leaves the cache as it is
C8_CachedReuse ==
    [][(TimerFires /\ CacheHas(complexityCache, CacheKey(debounceTimer))) =>
           /\ decoration'.kind = "label"
           /\ decoration'.code = debounceTimer
           /\ decoration'.text = CacheGet(complexityCache, CacheKey(debounceTimer))
           /\ requests' = requests
           /\ complexityCache' = complexityCache]_vars

\* a label cached for one selection is shown for another selection with the same
\* trimmed text, whose own estimate differs
C8_Witness ==
    /\ decoration = Shown(Sel_indented, HeuristicLabel(Sel_nested), "cache")
    /\ HeuristicLabel(Sel_nested) # HeuristicLabel(Sel_indented)
    /\ Len(complexityCache) = CacheLimit

\* the ways the remote request is unavailable
Unavailable == {"noKey", "networkError", "notOk", "badBody"}

\* the step ends the callback of a timer firing for the code c
FiringEnds(c) ==
    \/ debounceTimer = c /\ debounceTimer' = <<>> /\ requests' = requests
    \/ c \in Analysed /\ requests'[c] < requests[c]

C13_NoStaleResult ==
    [][(decoration' # decoration /\ decoration'.kind = "label")
           => decoration'.code = selection']_vars

=============================================================================
